---- MODULE Spec2Model ----
(***************************************************************************)
(* Model of the upload -> generate-3d -> validate client of                *)
(* src/src/app/analyze/page.tsx (component UploadSection).                 *)
(*                                                                         *)
(* A nullable JavaScript value is modelled as a sequence of length 0 or 1: *)
(* None is null/undefined, Some(v) is the value v.                         *)
(*                                                                         *)
(* The asynchronous handlers handleFileUpload and handleGenerate3D are     *)
(* split at their await: the part before the fetch is one action           *)
(* (the request is put in flight), the continuation after the response is  *)
(* another.  State updates of one continuation are batched by React and    *)
(* appear as one step.                                                     *)
(***************************************************************************)
EXTENDS Integers, Sequences, FiniteSets, TLC

\* ---------------------------------------------------------------- bounds
MaxUploadsInFlight == 2      \* upload requests that may be pending at once
MaxGensInFlight == 2         \* generation requests that may be pending at once
MaxDropFiles == 2            \* files carried by one drop / picker event
MaxVertices == 3             \* vertices, colors and texture coordinates of a payload
MaxFaces == 2                \* faces of a payload

\* ---------------------------------------------------------------- values
None == <<>>
Some(v) == <<v>>
Val(o) == o[1]

\* JavaScript truthiness of a nullable string (null and "" are falsy)
TruthyStr(o) == o # None /\ Val(o) # ""

Files == {"rock.jpg", "gem.png"}
FileIds == {"abc123", "def456"}
FileLists == UNION {[1..n -> Files] : n \in 0..MaxDropFiles}

UploadSlots == 1..MaxUploadsInFlight
GenSlots == 1..MaxGensInFlight
ObjIds == 1..(MaxGensInFlight + 2)

\* status codes of the non-2xx responses the model draws from
ErrorStatuses == {400, 500}

\* a JSON array that may be missing from its object
Missing == [present |-> FALSE, items |-> <<>>]
Arr(s) == [present |-> TRUE, items |-> s]

TriVertices == <<<<0, 0, 0>>, <<1, 0, 0>>, <<0, 1, 0>>>>
TriFaces == <<<<0, 1, 2>>>>

\* model_data objects the generation endpoint may return
ModelDatas ==
  [vertices : {Missing, Arr(<<>>), Arr(TriVertices)},
   faces : {Missing, Arr(<<>>), Arr(TriFaces)}]

\* bodies of a non-2xx response: not JSON at all, or a JSON object whose
\* detail member is absent, empty or a message
ErrorBodies ==
  {[json |-> FALSE, detail |-> None],
   [json |-> TRUE, detail |-> None],
   [json |-> TRUE, detail |-> Some("")],
   [json |-> TRUE, detail |-> Some("File too large")]}

\* what fetch rejects with: an Error (TypeError "Failed to fetch") or, from a
\* replaced fetch, a value that is not an Error
Rejections ==
  {[kind |-> "rejected", isError |-> TRUE, message |-> "Failed to fetch"],
   [kind |-> "rejected", isError |-> FALSE, message |-> "offline"]}
\* what fetch resolves with when response.ok is false
HttpErrors == [kind : {"http"}, status : ErrorStatuses, body : ErrorBodies]
\* 2xx bodies: None is a body response.json() cannot parse
UploadBodies == {None} \cup {Some([file_id |-> f]) : f \in FileIds}
UploadResponses ==
  [kind : {"ok"}, body : UploadBodies] \cup HttpErrors \cup Rejections
GenBodies ==
  {None} \cup {Some([model_data |-> None])}
         \cup {Some([model_data |-> Some(m)]) : m \in ModelDatas}
GenResponses ==
  [kind : {"ok"}, body : GenBodies] \cup HttpErrors \cup Rejections

\* message of the SyntaxError response.json() throws on a non-JSON body
JsonSyntaxError == "Unexpected token < in JSON at position 0"

VARIABLES
  isDragging, isUploading, uploadResult, error,
  isGenerating3D, generate3DResult, is3DReady, threeDError,
  uploadReqs,      \* upload fetches awaiting their response, by slot
  genReqs,         \* generation fetches awaiting their response, by slot
  timers,          \* pending setTimeout callbacks, each with the result it closed over
  effectCleanup,   \* the cleanup returned by the last run of the effect
  effectPending,   \* generate3DResult was committed, its effect has not run yet
  mounted,         \* the component is mounted
  lastOp,          \* the handler that ran last, with its input
  rockMesh         \* the RockMesh instance: its prop and what its memos hold

vars == <<isDragging, isUploading, uploadResult, error, isGenerating3D,
          generate3DResult, is3DReady, threeDError, uploadReqs, genReqs,
          timers, effectCleanup, effectPending, mounted, lastOp, rockMesh>>

Op(name, arg) == [name |-> name, arg |-> arg]

Init ==
  /\ isDragging = FALSE
  /\ isUploading = FALSE
  /\ uploadResult = None
  /\ error = None
  /\ isGenerating3D = FALSE
  /\ generate3DResult = None
  /\ is3DReady = FALSE
  /\ threeDError = None
  /\ uploadReqs = [s \in UploadSlots |-> None]
  /\ genReqs = [s \in GenSlots |-> None]
  /\ timers = {}
  /\ effectCleanup = None
  /\ effectPending = FALSE
  /\ mounted = TRUE
  /\ lastOp = Op("mount", None)
  /\ rockMesh = None

\* ------------------------------------------------------------- rendering
\* the conditional blocks of the JSX
DropZoneShown ==
  uploadResult = None /\ ~TruthyStr(error) /\ generate3DResult = None
UploadedCardShown == uploadResult # None /\ generate3DResult = None
ResultCardShown == generate3DResult # None
ErrorCardShown == TruthyStr(error)

LoaderViewShown == ResultCardShown /\ ~is3DReady /\ ~TruthyStr(threeDError)
ErrorViewShown == ResultCardShown /\ TruthyStr(threeDError)
MeshViewShown == ResultCardShown /\ is3DReady

\* an event handler can run: the component is mounted and React has
\* flushed the passive effect of the previous commit
Interactive == mounted /\ ~effectPending

\* ------------------------------------------------------- request tracking
FreeSlots(reqs) == {s \in DOMAIN reqs : reqs[s] = None}
FirstFree(reqs) == CHOOSE s \in FreeSlots(reqs) : \A t \in FreeSlots(reqs) : s <= t

\* every request already in flight is now older than the newest initiation
Superseded(reqs) ==
  [s \in DOMAIN reqs |->
     IF reqs[s] = None THEN None
     ELSE Some([Val(reqs[s]) EXCEPT !.stale = TRUE])]

\* ------------------------------------------------------------ the effect
\* clearTimeout(timer) of the cleanup the effect returned, if it returned one
\* mutant: the effect returns no cleanup
CleanedTimers_NoClear == timers

CleanedTimers ==
  IF effectCleanup = None THEN timers ELSE timers \ {Val(effectCleanup)}

\* the effect of the commit that stored generate3DResult: cleanup of the
\* previous run, then the body
RunEffect ==
  /\ mounted /\ effectPending
  /\ effectPending' = FALSE
  /\ IF generate3DResult # None /\ Val(generate3DResult).model_data # None
       THEN /\ is3DReady' = FALSE
            /\ threeDError' = None
            /\ timers' = CleanedTimers \cup {Val(generate3DResult)}
            /\ effectCleanup' = generate3DResult
       ELSE /\ timers' = CleanedTimers
            /\ effectCleanup' = None
            /\ UNCHANGED <<is3DReady, threeDError>>
  /\ UNCHANGED rockMesh
  /\ lastOp' = Op("effect", generate3DResult)
  /\ UNCHANGED <<isDragging, isUploading, uploadResult, error, isGenerating3D,
                 generate3DResult, uploadReqs, genReqs, mounted>>

\* mutant: the check forgets vertices.length
InvalidModelData_NoLengthCheck(m) ==
  \/ ~m.vertices.present
  \/ ~m.faces.present

\* mutant: the length test is inverted
InvalidModelData_WrongComparison(m) ==
  \/ ~m.vertices.present
  \/ ~m.faces.present
  \/ Len(m.vertices.items) > 0

\* the check inside the timer callback
InvalidModelData(m) ==
  \/ ~m.vertices.present
  \/ ~m.faces.present
  \/ Len(m.vertices.items) = 0

\* mutant: setIs3DReady(true) is called before the check
TimerFire_ReadyBeforeCheck(r) ==
  /\ Interactive
  /\ r \in timers
  /\ timers' = timers \ {r}
  /\ is3DReady' = TRUE
  /\ IF InvalidModelData(Val(r.model_data))
       THEN threeDError' = Some("Invalid model data structure")
       ELSE UNCHANGED threeDError
  /\ UNCHANGED rockMesh
  /\ lastOp' = Op("timer", Some(r))
  /\ UNCHANGED <<isDragging, isUploading, uploadResult, error, isGenerating3D,
                 generate3DResult, uploadReqs, genReqs, effectCleanup,
                 effectPending, mounted>>

\* the setTimeout callback, 500 ms after the effect scheduled it for result r
TimerFire(r) ==
  /\ Interactive
  /\ r \in timers
  /\ timers' = timers \ {r}
  /\ IF InvalidModelData(Val(r.model_data))
       THEN /\ threeDError' = Some("Invalid model data structure")
            /\ UNCHANGED is3DReady
       ELSE /\ is3DReady' = TRUE
            /\ UNCHANGED threeDError
  /\ UNCHANGED rockMesh
  /\ lastOp' = Op("timer", Some(r))
  /\ UNCHANGED <<isDragging, isUploading, uploadResult, error, isGenerating3D,
                 generate3DResult, uploadReqs, genReqs, effectCleanup,
                 effectPending, mounted>>

\* any of the pending timers elapses
TimerFires == \E r \in timers : TimerFire(r)

\* ------------------------------------------------------------ the upload
\* handleFileUpload up to the fetch
StartUpload(file) ==
  /\ FreeSlots(uploadReqs) # {}
  /\ isUploading' = TRUE
  /\ error' = None
  /\ uploadResult' = None
  /\ uploadReqs' = [Superseded(uploadReqs) EXCEPT
                      ![FirstFree(uploadReqs)] =
                          Some([file |-> file, stale |-> FALSE])]
  /\ genReqs' = Superseded(genReqs)

\* mutant: the fallback message leaves the status out
UploadHttpErrorMessage_NoStatus(resp) ==
  IF ~resp.body.json THEN JsonSyntaxError
  ELSE IF TruthyStr(resp.body.detail) THEN Val(resp.body.detail)
  ELSE "Upload failed"

\* the message of the Error thrown for a response that is not ok
UploadHttpErrorMessage(resp) ==
  IF ~resp.body.json THEN JsonSyntaxError
  ELSE IF TruthyStr(resp.body.detail) THEN Val(resp.body.detail)
  ELSE "Upload failed: " \o ToString(resp.status)

\* mutant: the catch block stores its fixed text for every rejection
UploadErrorMessage_FixedText(resp) ==
  IF resp.kind = "rejected" THEN "Upload failed"
  ELSE IF resp.kind = "http" THEN UploadHttpErrorMessage(resp)
  ELSE JsonSyntaxError

\* the message the catch block stores for a failed upload
UploadErrorMessage(resp) ==
  IF resp.kind = "rejected"
    THEN (IF resp.isError THEN resp.message ELSE "Upload failed")
  ELSE IF resp.kind = "http" THEN UploadHttpErrorMessage(resp)
  ELSE JsonSyntaxError

UploadSucceeds(resp) == resp.kind = "ok" /\ resp.body # None

\* mutant: a failed upload is sent again
UploadSettle_Retry(s, resp) ==
  /\ ~effectPending
  /\ uploadReqs[s] # None
  /\ uploadReqs' = IF UploadSucceeds(resp)
                     THEN [uploadReqs EXCEPT ![s] = None]
                     ELSE uploadReqs
  /\ IF mounted
       THEN /\ IF UploadSucceeds(resp)
                 THEN uploadResult' = resp.body /\ UNCHANGED error
                 ELSE error' = Some(UploadErrorMessage(resp))
                      /\ UNCHANGED uploadResult
            /\ isUploading' = FALSE
       ELSE UNCHANGED <<uploadResult, error, isUploading>>
  /\ UNCHANGED rockMesh
  /\ lastOp' = Op("uploadSettled", Some([req |-> Val(uploadReqs[s]), resp |-> resp]))
  /\ UNCHANGED <<isDragging, isGenerating3D, generate3DResult, is3DReady,
                 threeDError, genReqs, timers, effectCleanup, effectPending,
                 mounted>>

\* handleFileUpload after the fetch settled with resp
UploadSettle(s, resp) ==
  /\ ~effectPending
  /\ uploadReqs[s] # None
  /\ uploadReqs' = [uploadReqs EXCEPT ![s] = None]
  /\ IF mounted
       THEN /\ IF UploadSucceeds(resp)
                 THEN uploadResult' = resp.body /\ UNCHANGED error
                 ELSE error' = Some(UploadErrorMessage(resp))
                      /\ UNCHANGED uploadResult
            /\ isUploading' = FALSE
       ELSE UNCHANGED <<uploadResult, error, isUploading>>
  /\ UNCHANGED rockMesh
  /\ lastOp' = Op("uploadSettled", Some([req |-> Val(uploadReqs[s]), resp |-> resp]))
  /\ UNCHANGED <<isDragging, isGenerating3D, generate3DResult, is3DReady,
                 threeDError, genReqs, timers, effectCleanup, effectPending,
                 mounted>>

handleDragOver ==
  /\ Interactive /\ DropZoneShown
  /\ isDragging' = TRUE
  /\ UNCHANGED rockMesh
  /\ lastOp' = Op("dragOver", None)
  /\ UNCHANGED <<isUploading, uploadResult, error, isGenerating3D,
                 generate3DResult, is3DReady, threeDError, uploadReqs, genReqs,
                 timers, effectCleanup, effectPending, mounted>>

handleDragLeave ==
  /\ Interactive /\ DropZoneShown
  /\ isDragging' = FALSE
  /\ UNCHANGED rockMesh
  /\ lastOp' = Op("dragLeave", None)
  /\ UNCHANGED <<isUploading, uploadResult, error, isGenerating3D,
                 generate3DResult, is3DReady, threeDError, uploadReqs, genReqs,
                 timers, effectCleanup, effectPending, mounted>>

\* mutant: the last file of the drop is the one uploaded
handleDrop_LastFile(files) ==
  /\ Interactive /\ DropZoneShown
  /\ isDragging' = FALSE
  /\ IF Len(files) > 0
       THEN StartUpload(files[Len(files)])
       ELSE UNCHANGED <<isUploading, error, uploadResult, uploadReqs, genReqs>>
  /\ UNCHANGED rockMesh
  /\ lastOp' = Op("drop", Some(files))
  /\ UNCHANGED <<isGenerating3D, generate3DResult, is3DReady, threeDError,
                 timers, effectCleanup, effectPending, mounted>>

\* a drop on the drop zone; the zone takes drops while an upload is running
handleDrop(files) ==
  /\ Interactive /\ DropZoneShown
  /\ isDragging' = FALSE
  /\ IF Len(files) > 0
       THEN StartUpload(files[1])
       ELSE UNCHANGED <<isUploading, error, uploadResult, uploadReqs, genReqs>>
  /\ UNCHANGED rockMesh
  /\ lastOp' = Op("drop", Some(files))
  /\ UNCHANGED <<isGenerating3D, generate3DResult, is3DReady, threeDError,
                 timers, effectCleanup, effectPending, mounted>>

\* a change event of the file input, which is disabled while isUploading
handleFileSelect(files) ==
  /\ Interactive /\ DropZoneShown /\ ~isUploading
  /\ IF Len(files) > 0
       THEN StartUpload(files[1])
       ELSE UNCHANGED <<isUploading, error, uploadResult, uploadReqs, genReqs>>
  /\ UNCHANGED rockMesh
  /\ lastOp' = Op("fileSelect", Some(files))
  /\ UNCHANGED <<isDragging, isGenerating3D, generate3DResult, is3DReady,
                 threeDError, timers, effectCleanup, effectPending, mounted>>

\* -------------------------------------------------------- the generation
\* mutant: the request path is built from a fixed identifier
Generate3D_FixedPath ==
  /\ IF uploadResult = None
       THEN UNCHANGED <<isGenerating3D, error, genReqs, uploadReqs>>
       ELSE /\ FreeSlots(genReqs) # {}
            /\ isGenerating3D' = TRUE
            /\ error' = None
            /\ genReqs' = [Superseded(genReqs) EXCEPT
                             ![FirstFree(genReqs)] =
                                 Some([file_id |-> "abc123", stale |-> FALSE])]
            /\ uploadReqs' = Superseded(uploadReqs)
  /\ UNCHANGED rockMesh
  /\ lastOp' = Op("generate", Some([upload |-> uploadResult,
                                     failedBefore |-> TruthyStr(error)]))
  /\ UNCHANGED <<isDragging, isUploading, uploadResult, generate3DResult,
                 is3DReady, threeDError, timers, effectCleanup, effectPending,
                 mounted>>

\* mutant: setError(null) is missing
Generate3D_KeepsError ==
  /\ IF uploadResult = None
       THEN UNCHANGED <<isGenerating3D, genReqs, uploadReqs>>
       ELSE /\ FreeSlots(genReqs) # {}
            /\ isGenerating3D' = TRUE
            /\ genReqs' = [Superseded(genReqs) EXCEPT
                             ![FirstFree(genReqs)] =
                                 Some([file_id |-> Val(uploadResult).file_id,
                                       stale |-> FALSE])]
            /\ uploadReqs' = Superseded(uploadReqs)
  /\ UNCHANGED rockMesh
  /\ lastOp' = Op("generate", Some([upload |-> uploadResult,
                                     failedBefore |-> TruthyStr(error)]))
  /\ UNCHANGED <<isDragging, isUploading, uploadResult, generate3DResult,
                 is3DReady, threeDError, timers, effectCleanup, effectPending,
                 mounted, error>>

\* handleGenerate3D up to the fetch
Generate3D ==
  /\ IF uploadResult = None
       THEN UNCHANGED <<isGenerating3D, error, genReqs, uploadReqs>>
       ELSE /\ FreeSlots(genReqs) # {}
            /\ isGenerating3D' = TRUE
            /\ error' = None
            /\ genReqs' = [Superseded(genReqs) EXCEPT
                             ![FirstFree(genReqs)] =
                                 Some([file_id |-> Val(uploadResult).file_id,
                                       stale |-> FALSE])]
            /\ uploadReqs' = Superseded(uploadReqs)
  /\ UNCHANGED rockMesh
  /\ lastOp' = Op("generate", Some([upload |-> uploadResult,
                                     failedBefore |-> TruthyStr(error)]))
  /\ UNCHANGED <<isDragging, isUploading, uploadResult, generate3DResult,
                 is3DReady, threeDError, timers, effectCleanup, effectPending,
                 mounted>>

\* mutant: the button is not disabled while isGenerating3D
handleGenerate3D_NotDisabled ==
  /\ Interactive /\ UploadedCardShown
  /\ Generate3D

\* a click on Start Analysis, rendered with the uploaded card and disabled
\* while isGenerating3D
handleGenerate3D ==
  /\ Interactive /\ UploadedCardShown /\ ~isGenerating3D
  /\ Generate3D

\* handleGenerate3D called with no upload stored, which no rendered button
\* does: the call a unit test of the handler makes
GenerateWithoutUpload ==
  /\ Interactive /\ uploadResult = None
  /\ Generate3D

\* mutant: the fallback message leaves the status out
GenHttpErrorMessage_NoStatus(resp) ==
  IF ~resp.body.json THEN JsonSyntaxError
  ELSE IF TruthyStr(resp.body.detail) THEN Val(resp.body.detail)
  ELSE "3D generation failed"

\* the message of the Error thrown for a generation response that is not ok
GenHttpErrorMessage(resp) ==
  IF ~resp.body.json THEN JsonSyntaxError
  ELSE IF TruthyStr(resp.body.detail) THEN Val(resp.body.detail)
  ELSE "3D generation failed: " \o ToString(resp.status)

\* the message the catch block stores for a failed generation
GenErrorMessage(resp) ==
  IF resp.kind = "rejected"
    THEN (IF resp.isError THEN resp.message ELSE "3D generation failed")
  ELSE IF resp.kind = "http" THEN GenHttpErrorMessage(resp)
  ELSE JsonSyntaxError

GenSucceeds(resp) == resp.kind = "ok" /\ resp.body # None

\* identities of the result objects still referenced
LiveObjIds ==
  {r.oid : r \in timers}
    \cup {o[1].oid : o \in {generate3DResult, effectCleanup} \ {None}}
FreshObjId == CHOOSE i \in ObjIds \ LiveObjIds : \A j \in ObjIds \ LiveObjIds : i <= j

\* the object response.json() returns for request req
ParsedGenResult(req, resp) ==
  [oid |-> FreshObjId, file_id |-> req.file_id,
   model_data |-> Val(resp.body).model_data]

\* mutant: a failed generation is also reported in the viewport
GenSettle_SetsThreeDError(s, resp) ==
  /\ ~effectPending
  /\ genReqs[s] # None
  /\ genReqs' = [genReqs EXCEPT ![s] = None]
  /\ IF mounted
       THEN /\ IF GenSucceeds(resp)
                 THEN /\ ObjIds \ LiveObjIds # {}
                      /\ generate3DResult' =
                           Some(ParsedGenResult(Val(genReqs[s]), resp))
                      /\ effectPending' = TRUE
                      /\ UNCHANGED <<error, threeDError>>
                 ELSE /\ error' = Some(GenErrorMessage(resp))
                      /\ threeDError' = Some(GenErrorMessage(resp))
                      /\ UNCHANGED <<generate3DResult, effectPending>>
            /\ isGenerating3D' = FALSE
       ELSE UNCHANGED <<generate3DResult, error, isGenerating3D, effectPending,
                        threeDError>>
  /\ UNCHANGED rockMesh
  /\ lastOp' = Op("genSettled", Some([req |-> Val(genReqs[s]), resp |-> resp]))
  /\ UNCHANGED <<isDragging, isUploading, uploadResult, is3DReady,
                 uploadReqs, timers, effectCleanup, mounted>>

\* handleGenerate3D after the fetch settled with resp
GenSettle(s, resp) ==
  /\ ~effectPending
  /\ genReqs[s] # None
  /\ genReqs' = [genReqs EXCEPT ![s] = None]
  /\ IF mounted
       THEN /\ IF GenSucceeds(resp)
                 THEN /\ ObjIds \ LiveObjIds # {}
                      /\ generate3DResult' =
                           Some(ParsedGenResult(Val(genReqs[s]), resp))
                      /\ effectPending' = TRUE
                      /\ UNCHANGED error
                 ELSE /\ error' = Some(GenErrorMessage(resp))
                      /\ UNCHANGED <<generate3DResult, effectPending>>
            /\ isGenerating3D' = FALSE
       ELSE UNCHANGED <<generate3DResult, error, isGenerating3D, effectPending>>
  /\ UNCHANGED rockMesh
  /\ lastOp' = Op("genSettled", Some([req |-> Val(genReqs[s]), resp |-> resp]))
  /\ UNCHANGED <<isDragging, isUploading, uploadResult, is3DReady, threeDError,
                 uploadReqs, timers, effectCleanup, mounted>>

\* ---------------------------------------------------------------- reset
\* what the user saw when clicking, kept in lastOp
ViewBefore ==
  [uploaded |-> uploadResult # None, generated |-> generate3DResult # None,
   failed |-> TruthyStr(error), ready |-> is3DReady,
   invalid |-> TruthyStr(threeDError), timerPending |-> timers # {}]

\* mutant: reset forgets setIs3DReady(false)
resetUpload_KeepsReady ==
  /\ Interactive
  /\ UploadedCardShown \/ ResultCardShown \/ ErrorCardShown
  /\ uploadResult' = None
  /\ error' = None
  /\ generate3DResult' = None
  /\ threeDError' = None
  /\ IF generate3DResult # None
       THEN timers' = CleanedTimers /\ effectCleanup' = None
       ELSE UNCHANGED <<timers, effectCleanup>>
  /\ uploadReqs' = Superseded(uploadReqs)
  /\ genReqs' = Superseded(genReqs)
  /\ UNCHANGED rockMesh
  /\ lastOp' = Op("reset", Some(ViewBefore))
  /\ UNCHANGED <<isDragging, isUploading, isGenerating3D, effectPending,
                 mounted, is3DReady>>

\* mutant: reset forgets setThreeDError(null)
resetUpload_KeepsThreeDError ==
  /\ Interactive
  /\ UploadedCardShown \/ ResultCardShown \/ ErrorCardShown
  /\ uploadResult' = None
  /\ error' = None
  /\ generate3DResult' = None
  /\ is3DReady' = FALSE
  /\ IF generate3DResult # None
       THEN timers' = CleanedTimers /\ effectCleanup' = None
       ELSE UNCHANGED <<timers, effectCleanup>>
  /\ uploadReqs' = Superseded(uploadReqs)
  /\ genReqs' = Superseded(genReqs)
  /\ UNCHANGED rockMesh
  /\ lastOp' = Op("reset", Some(ViewBefore))
  /\ UNCHANGED <<isDragging, isUploading, isGenerating3D, effectPending,
                 mounted, threeDError>>

\* a click on Upload Another / Analyze Another Rock / Try Again.  The click
\* is a discrete event: React runs the effect cleanup of the commit that
\* drops generate3DResult before the handler's task ends.
resetUpload ==
  /\ Interactive
  /\ UploadedCardShown \/ ResultCardShown \/ ErrorCardShown
  /\ uploadResult' = None
  /\ error' = None
  /\ generate3DResult' = None
  /\ is3DReady' = FALSE
  /\ threeDError' = None
  /\ IF generate3DResult # None
       THEN timers' = CleanedTimers /\ effectCleanup' = None
       ELSE UNCHANGED <<timers, effectCleanup>>
  /\ uploadReqs' = Superseded(uploadReqs)
  /\ genReqs' = Superseded(genReqs)
  /\ UNCHANGED rockMesh
  /\ lastOp' = Op("reset", Some(ViewBefore))
  /\ UNCHANGED <<isDragging, isUploading, isGenerating3D, effectPending, mounted>>

\* the page is left: the effect cleanup runs, later setState calls are dropped
Unmount ==
  /\ Interactive
  /\ mounted' = FALSE
  /\ timers' = CleanedTimers
  /\ effectCleanup' = None
  /\ UNCHANGED rockMesh
  /\ lastOp' = Op("unmount", None)
  /\ UNCHANGED <<isDragging, isUploading, uploadResult, error, isGenerating3D,
                 generate3DResult, is3DReady, threeDError, uploadReqs, genReqs,
                 effectPending>>

Next ==
  \/ handleDragOver
  \/ handleDragLeave
  \/ \E files \in FileLists : handleDrop(files)
  \/ \E files \in FileLists : handleFileSelect(files)
  \/ \E s \in UploadSlots, resp \in UploadResponses : UploadSettle(s, resp)
  \/ handleGenerate3D
  \/ \E s \in GenSlots, resp \in GenResponses : GenSettle(s, resp)
  \/ RunEffect
  \/ TimerFires
  \/ resetUpload
  \/ Unmount

Spec == Init /\ [][Next]_vars

\* the component as the browser schedules it: React runs the effect of every
\* commit, and a setTimeout callback that is not cleared is called
SpecLive == Spec /\ WF_vars(RunEffect) /\ WF_vars(TimerFires)

\* the component with handleGenerate3D also called directly
NextDirect == Next \/ GenerateWithoutUpload
SpecDirect == Init /\ [][NextDirect]_vars

\* =============================================================== RockMesh
\* src/src/components/sections/examples.tsx: the mesh assembler.
\* The payloads RockMesh is rendered with passed the check of the timer
\* callback: vertices is a non-empty array and faces is an array.
Vertex(i) == <<i - 1, (i * i) % 3, IF i = 2 THEN 16777217 ELSE 0>>
Face(i) == <<i - 1, i % 3, (i + 1) % 3>>
Color(i) == <<i % 2, 1, 0>>
TexCoord(i) == <<i % 2, (i + 1) % 2>>

\* colors and texture_coords as a payload may carry them: missing, empty, or
\* up to MaxVertices entries, whatever the number of vertices
ColorArrays ==
  {Missing} \cup {Arr([i \in 1..n |-> Color(i)]) : n \in 0..MaxVertices}
TexCoordArrays ==
  {Missing} \cup {Arr([i \in 1..n |-> TexCoord(i)]) : n \in 0..MaxVertices}

MeshPayloads ==
  [vertices : {Arr([i \in 1..n |-> Vertex(i)]) : n \in 1..MaxVertices},
   faces : {Arr([i \in 1..n |-> Face(i)]) : n \in 0..MaxFaces},
   colors : ColorArrays,
   texture_coords : TexCoordArrays]

\* Array.prototype.flat() of an array of arrays
RECURSIVE Flat(_)
Flat(a) == IF a = <<>> THEN <<>> ELSE Head(a) \o Flat(Tail(a))

\* the value a Float32Array stores for an integer of magnitude below 2^25:
\* exact up to 2^24, then rounded to the nearest even neighbour
Abs(n) == IF n < 0 THEN -n ELSE n
ToFloat32(n) ==
  IF Abs(n) <= 16777216 \/ n % 2 = 0 THEN n
  ELSE IF (n - 1) % 4 = 0 THEN n - 1 ELSE n + 1

\* the value a Uint32Array stores for an integer (modulo 2^32), as its high
\* and low 16 bits
ToUint32(n) ==
  IF n >= 0 THEN [hi |-> (n \div 65536) % 65536, lo |-> n % 65536]
  ELSE [hi |-> 65535 - ((((-n) - 1) \div 65536) % 65536),
        lo |-> 65535 - (((-n) - 1) % 65536)]

Float32Array(a) == [i \in 1..Len(a) |-> ToFloat32(a[i])]
\* mutant: the typed array holds the values in reverse order
Uint32Array_Reversed(a) == [i \in 1..Len(a) |-> ToUint32(a[Len(a) + 1 - i])]

Uint32Array(a) == [i \in 1..Len(a) |-> ToUint32(a[i])]

BufferAttribute(array, itemSize) == [array |-> array, itemSize |-> itemSize]

\* modelData.colors && modelData.colors.length > 0
HasItems(a) == a.present /\ Len(a.items) > 0

RockColor == 9139029       \* 0x8B7355
White == 16777215          \* 0xffffff

\* mutant: the color buffer is attached whenever colors is an array
Geometry_ColorsWhenPresent(modelData) ==
  [position |-> BufferAttribute(Float32Array(Flat(modelData.vertices.items)), 3),
   index |-> BufferAttribute(Uint32Array(Flat(modelData.faces.items)), 1),
   color |-> IF modelData.colors.present
               THEN Some(BufferAttribute(
                           Float32Array(Flat(modelData.colors.items)), 3))
               ELSE None,
   uv |-> IF HasItems(modelData.texture_coords)
            THEN Some(BufferAttribute(
                        Float32Array(Flat(modelData.texture_coords.items)), 2))
            ELSE None,
   normal |-> [count |-> Len(modelData.vertices.items)]]

\* the geometry memo: the BufferGeometry built from modelData.  The normal
\* attribute computeVertexNormals adds is kept by its item count only.
Geometry(modelData) ==
  [position |-> BufferAttribute(Float32Array(Flat(modelData.vertices.items)), 3),
   index |-> BufferAttribute(Uint32Array(Flat(modelData.faces.items)), 1),
   color |-> IF HasItems(modelData.colors)
               THEN Some(BufferAttribute(
                           Float32Array(Flat(modelData.colors.items)), 3))
               ELSE None,
   uv |-> IF HasItems(modelData.texture_coords)
            THEN Some(BufferAttribute(
                        Float32Array(Flat(modelData.texture_coords.items)), 2))
            ELSE None,
   normal |-> [count |-> Len(modelData.vertices.items)]]

\* the material memo.  An undefined vertexColors (colors missing) leaves the
\* material's default, false.
Material(modelData) ==
  [vertexColors |-> HasItems(modelData.colors),
   color |-> IF HasItems(modelData.colors) THEN White ELSE RockColor,
   roughness |-> "0.8", metalness |-> "0.1", side |-> "DoubleSide"]

\* RockMesh rendered with modelData
RenderRockMesh(modelData) ==
  /\ rockMesh' = Some([modelData |-> modelData,
                         geometry |-> Geometry(modelData),
                         material |-> Material(modelData)])
  /\ UNCHANGED <<isDragging, isUploading, uploadResult, error, isGenerating3D,
                 generate3DResult, is3DReady, threeDError, uploadReqs, genReqs,
                 timers, effectCleanup, effectPending, mounted, lastOp>>

NextMesh == \E modelData \in MeshPayloads : RenderRockMesh(modelData)
SpecMesh == Init /\ [][NextMesh]_vars

\* ================================================================ claims
\* the request and the response of the continuation that ran last
SettledReq == Val(lastOp.arg).req
SettledResp == Val(lastOp.arg).resp
UploadApplied == lastOp.name = "uploadSettled" /\ mounted
GenApplied == lastOp.name = "genSettled" /\ mounted

InvalidGeometryMessage == "Invalid model data structure"

\* C1: the step that stores the parsed body of a 2xx upload response leads
\* from uploading (isUploading, uploadResult and error null) to uploaded
\* (not isUploading, uploadResult = the parsed body): uploaded is never
\* entered from a state that is not uploading.
C1_UploadedOnlyFromUploading ==
  [][(lastOp'.name = "uploadSettled" /\ mounted'
        /\ UploadSucceeds(Val(lastOp'.arg).resp))
      => /\ isUploading /\ uploadResult = None /\ error = None
         /\ ~isUploading' /\ uploadResult' = Val(lastOp'.arg).resp.body]_vars

\* C2: a response is applied to the visible state only if no upload,
\* generation or reset was initiated after its request.
C2_OnlyLatestRequestApplied ==
  [][(lastOp'.name \in {"uploadSettled", "genSettled"} /\ mounted')
      => ~Val(lastOp'.arg).req.stale]_vars

\* the payload lacks vertices or faces, or one of them is empty
InvalidGeometry(m) ==
  \/ ~m.vertices.present \/ Len(m.vertices.items) = 0
  \/ ~m.faces.present \/ Len(m.faces.items) = 0

\* C3: a stored result with vertices but an empty faces array is never
\* shown as ready, and once its timer has fired threeDError is the
\* invalid-geometry message.
VerticesButNoFaces(r) ==
  /\ r.model_data # None
  /\ Val(r.model_data).vertices.present
  /\ Len(Val(r.model_data).vertices.items) > 0
  /\ Val(r.model_data).faces.present
  /\ Len(Val(r.model_data).faces.items) = 0

\* the timer scheduled for the stored result has fired
Validated ==
  /\ mounted /\ ~effectPending
  /\ generate3DResult # None
  /\ Val(generate3DResult).model_data # None
  /\ Val(generate3DResult) \notin timers

C3_EmptyFacesRejected ==
  (generate3DResult # None /\ VerticesButNoFaces(Val(generate3DResult)))
    => /\ ~is3DReady
       /\ Validated => threeDError = Some(InvalidGeometryMessage)

\* C4: a stored result whose vertices array is empty is never shown as
\* ready, and once its timer has fired threeDError is the invalid-geometry
\* message and the viewport shows the error view, not the loader or the mesh.
EmptyVertices(r) ==
  /\ r.model_data # None
  /\ Val(r.model_data).vertices.present
  /\ Len(Val(r.model_data).vertices.items) = 0

C4_EmptyVerticesRejected ==
  (generate3DResult # None /\ EmptyVertices(Val(generate3DResult)))
    => /\ ~is3DReady
       /\ ~MeshViewShown
       /\ Validated => /\ threeDError = Some(InvalidGeometryMessage)
                        /\ ErrorViewShown
                        /\ ~LoaderViewShown

C4_Witness ==
  /\ lastOp.name = "timer"
  /\ generate3DResult = lastOp.arg
  /\ EmptyVertices(Val(generate3DResult))
  /\ ErrorViewShown

\* C5: right after resetUpload, uploadResult, generate3DResult, error and
\* threeDError are null, is3DReady is false and the drop zone is shown.
C5_ResetClearsAll ==
  lastOp.name = "reset"
    => /\ uploadResult = None
       /\ generate3DResult = None
       /\ error = None
       /\ threeDError = None
       /\ ~is3DReady
       /\ DropZoneShown

\* a reset clicked in ready, with the mesh shown
C5_Witness ==
  /\ lastOp.name = "reset"
  /\ Val(lastOp.arg).ready /\ Val(lastOp.arg).generated
  /\ DropZoneShown

\* C6: every pending validation timer belongs to the stored
\* generate3DResult of the mounted component, and a timer that fired did so
\* for the result that is stored: no timer outlives its result.
C6_TimerOnlyForStoredResult ==
  /\ \A r \in timers : mounted /\ generate3DResult = Some(r)
  /\ lastOp.name = "timer" => lastOp.arg = generate3DResult

\* a reset that cancelled a timer still pending
C6_Witness ==
  /\ lastOp.name = "reset"
  /\ Val(lastOp.arg).timerPending
  /\ timers = {}

\* C7: a stored generation result belongs to the stored upload.
C7_ResultMatchesUpload ==
  generate3DResult # None
    => /\ uploadResult # None
       /\ Val(generate3DResult).file_id = Val(uploadResult).file_id

\* C8: no step replaces a stored uploadResult by one with another file_id.
C8_FileIdImmutable ==
  [][(uploadResult # None /\ uploadResult' # None)
      => Val(uploadResult').file_id = Val(uploadResult).file_id]_vars

\* C9: from the state an upload failure leaves, every step other than
\* resetUpload keeps error set and uploadResult null and starts no upload.
UploadsInFlight == {s \in UploadSlots : uploadReqs[s] # None}

C9_UploadErrorLeftOnlyByReset ==
  [][(UploadApplied /\ ~UploadSucceeds(SettledResp)
        /\ lastOp'.name # "reset" /\ mounted')
      => /\ error' # None
         /\ uploadResult' = None
         /\ UploadsInFlight' \subseteq UploadsInFlight]_vars

\* C10 as stated: after a non-2xx upload response, error is the body's
\* detail when the body has one, else "Upload failed: <status>".
C10_DetailElseStatus ==
  (UploadApplied /\ SettledResp.kind = "http")
    => error = Some(IF SettledResp.body.detail # None
                      THEN Val(SettledResp.body.detail)
                      ELSE "Upload failed: " \o ToString(SettledResp.status))

\* C10 amended: after a non-2xx upload response, error is the body's detail
\* when the body is JSON with a non-empty detail, "Upload failed: <status>"
\* when the body is JSON with no detail or an empty one, and the message of
\* the parse exception when the body is not JSON.
C10_NonEmptyDetailElseStatus ==
  (UploadApplied /\ SettledResp.kind = "http")
    => error = Some(
         IF ~SettledResp.body.json
           THEN "Unexpected token < in JSON at position 0"
         ELSE IF SettledResp.body.detail \notin {None, Some("")}
           THEN Val(SettledResp.body.detail)
         ELSE IF SettledResp.status = 400 THEN "Upload failed: 400"
         ELSE "Upload failed: 500")

\* a 500 with an empty detail, reported by its status
C10_Witness ==
  /\ UploadApplied
  /\ SettledResp.kind = "http"
  /\ SettledResp.body = [json |-> TRUE, detail |-> Some("")]
  /\ error = Some("Upload failed: 500")

\* the response of the continuation that runs in this step
SettledResp1 == Val(lastOp'.arg).resp
GenFails1 == lastOp'.name = "genSettled" /\ mounted' /\ ~GenSucceeds(SettledResp1)
UploadFails1 ==
  lastOp'.name = "uploadSettled" /\ mounted' /\ ~UploadSucceeds(SettledResp1)

\* the message of the exception a failed attempt caught, when it is an Error
\* that was not thrown for the status: fetch rejected, or a body was not JSON
CaughtMessage(resp) ==
  IF resp.kind = "rejected" THEN resp.message
  ELSE "Unexpected token < in JSON at position 0"

StatusText(status) == IF status = 400 THEN "400" ELSE "500"

\* C11 as stated: a failed generation stores the body's detail when a non-2xx
\* body has one, else "3D generation failed: <status>", else the caught
\* exception's message, else "3D generation failed"; generate3DResult is
\* not set.
C11_SamePolicyAsUpload ==
  [][GenFails1
      => /\ error' = Some(
              IF SettledResp1.kind = "http" /\ SettledResp1.body.json
                THEN (IF SettledResp1.body.detail # None
                        THEN Val(SettledResp1.body.detail)
                        ELSE "3D generation failed: "
                               \o StatusText(SettledResp1.status))
              ELSE IF SettledResp1.kind = "rejected" /\ ~SettledResp1.isError
                THEN "3D generation failed"
              ELSE CaughtMessage(SettledResp1))
         /\ generate3DResult' = generate3DResult]_vars

\* C11 amended: as C11, with the detail used only when it is a non-empty
\* string; an empty detail gives "3D generation failed: <status>".
C11_NonEmptyDetailPolicy ==
  [][GenFails1
      => /\ error' = Some(
              IF SettledResp1.kind = "http" /\ SettledResp1.body.json
                THEN (IF SettledResp1.body.detail \notin {None, Some("")}
                        THEN Val(SettledResp1.body.detail)
                        ELSE "3D generation failed: "
                               \o StatusText(SettledResp1.status))
              ELSE IF SettledResp1.kind = "rejected" /\ ~SettledResp1.isError
                THEN "3D generation failed"
              ELSE CaughtMessage(SettledResp1))
         /\ generate3DResult' = generate3DResult]_vars

\* a 500 without detail, reported by its status, with no result stored
C11_Witness ==
  /\ GenApplied
  /\ SettledResp.kind = "http"
  /\ SettledResp.status = 500
  /\ SettledResp.body = [json |-> TRUE, detail |-> None]
  /\ error = Some("3D generation failed: 500")
  /\ generate3DResult = None

\* C12: while a result with non-empty vertices and faces is stored, the
\* viewport shows the loader (is3DReady false, threeDError null) until its
\* timer has fired, and from then on is3DReady is true, threeDError is null
\* and the mesh view is the one shown.
Renderable(r) ==
  /\ r.model_data # None
  /\ ~InvalidGeometry(Val(r.model_data))

C12_RenderableBecomesReady ==
  (mounted /\ generate3DResult # None /\ Renderable(Val(generate3DResult)))
    => IF Validated
         THEN /\ is3DReady /\ threeDError = None
              /\ MeshViewShown /\ ~LoaderViewShown /\ ~ErrorViewShown
         ELSE /\ ~is3DReady /\ threeDError = None
              /\ LoaderViewShown /\ ~MeshViewShown /\ ~ErrorViewShown

C12_Witness ==
  /\ lastOp.name = "timer"
  /\ lastOp.arg = generate3DResult
  /\ Renderable(Val(generate3DResult))
  /\ MeshViewShown

\* C13: while a generation result is stored exactly one of the loader, the
\* error view and the mesh view is shown, and is3DReady and threeDError are
\* never both set.
ViewsShown ==
  {v \in {"loader", "error", "mesh"} :
     \/ v = "loader" /\ LoaderViewShown
     \/ v = "error" /\ ErrorViewShown
     \/ v = "mesh" /\ MeshViewShown}

C13_OneViewAtATime ==
  /\ ResultCardShown => Cardinality(ViewsShown) = 1
  /\ ~(is3DReady /\ threeDError # None)

C13_Witness ==
  /\ ResultCardShown
  /\ lastOp.name = "timer"
  /\ ViewsShown = {"error"}

\* C14: a step that puts a generation request in flight starts with an
\* uploadResult stored and uses its file_id as the path parameter; a call
\* of handleGenerate3D with uploadResult null puts no request in flight and
\* leaves every state variable of the component as it was.
NewGenReqs1 == {s \in GenSlots : genReqs[s] = None /\ genReqs'[s] # None}

C14_GenerateNeedsUpload ==
  [][/\ \A s \in NewGenReqs1 :
          /\ uploadResult # None
          /\ Val(genReqs'[s]).file_id = Val(uploadResult).file_id
     /\ (lastOp'.name = "generate" /\ uploadResult = None)
          => /\ NewGenReqs1 = {}
             /\ UNCHANGED <<isDragging, isUploading, uploadResult, error,
                             isGenerating3D, generate3DResult, is3DReady,
                             threeDError, uploadReqs, genReqs>>]_vars

\* a call with no upload stored that issued nothing, while the request of
\* an earlier click is still in flight
C14_Witness ==
  /\ lastOp.name = "generate"
  /\ Val(lastOp.arg).upload = None
  /\ \E s \in GenSlots : genReqs[s] # None

\* C15: a drop or file selection with a file puts exactly one upload
\* request in flight, a click on Start Analysis exactly one generation
\* request; no other step (response, failure, timer, effect, reset) puts a
\* request in flight, and a settled request leaves the requests in flight
\* without being sent again.
NewUploadReqs1 ==
  {s \in UploadSlots : uploadReqs[s] = None /\ uploadReqs'[s] # None}
GoneUploadReqs1 ==
  {s \in UploadSlots : uploadReqs[s] # None /\ uploadReqs'[s] = None}
GoneGenReqs1 == {s \in GenSlots : genReqs[s] # None /\ genReqs'[s] = None}

ColorsOmitted(modelData) ==
  ~modelData.colors.present \/ modelData.colors.items = <<>>

C17_ColorBufferPerVertex ==
  rockMesh # None
    => IF ColorsOmitted(Val(rockMesh).modelData)
         THEN /\ Val(rockMesh).geometry.color = None
              /\ ~Val(rockMesh).material.vertexColors
              /\ Val(rockMesh).material.color = 9139029
         ELSE /\ Val(rockMesh).material.vertexColors
              /\ Val(rockMesh).geometry.color # None
              /\ Len(Val(Val(rockMesh).geometry.color).array)
                   = 3 * Len(Val(rockMesh).modelData.vertices.items)

\* C17 amended: as C17, with the color buffer holding the RGB triples of
\* colors, 3 x the number of colors entries, whatever the number of vertices.
C17_ColorBufferPerColor ==
  rockMesh # None
    => IF ColorsOmitted(Val(rockMesh).modelData)
         THEN /\ Val(rockMesh).geometry.color = None
              /\ ~Val(rockMesh).material.vertexColors
              /\ Val(rockMesh).material.color = 9139029
         ELSE /\ Val(rockMesh).material.vertexColors
              /\ Val(rockMesh).geometry.color # None
              /\ Len(Val(Val(rockMesh).geometry.color).array)
                   = 3 * Len(Val(rockMesh).modelData.colors.items)

\* a mesh with three vertices and three colors: nine color values
C17_Witness ==
  /\ rockMesh # None
  /\ Len(Val(rockMesh).modelData.vertices.items) = 3
  /\ Len(Val(rockMesh).modelData.colors.items) = 3
  /\ Val(rockMesh).material.vertexColors
  /\ Len(Val(Val(rockMesh).geometry.color).array) = 9

\* C18: when the fetch of an upload or of a generation rejects with an
\* Error, error becomes that Error's message as it is, the busy flag of the
\* call (isUploading, isGenerating3D) becomes false and neither uploadResult
\* nor generate3DResult is written; a rejection value that is not an Error
\* has no message and gives the fixed text of the call.
TransportFailure1 == SettledResp1.kind = "rejected"

C18_TransportFailureVerbatim ==
  [][/\ (UploadFails1 /\ TransportFailure1)
          => /\ error' = Some(IF SettledResp1.isError
                                 THEN SettledResp1.message
                                 ELSE "Upload failed")
             /\ ~isUploading'
             /\ UNCHANGED <<uploadResult, generate3DResult>>
     /\ (GenFails1 /\ TransportFailure1)
          => /\ error' = Some(IF SettledResp1.isError
                                 THEN SettledResp1.message
                                 ELSE "3D generation failed")
             /\ ~isGenerating3D'
             /\ UNCHANGED <<uploadResult, generate3DResult>>]_vars

\* an upload whose fetch rejected with TypeError "Failed to fetch"
C18_Witness ==
  /\ UploadApplied
  /\ SettledResp.kind = "rejected"
  /\ SettledResp.isError
  /\ error = Some("Failed to fetch")
  /\ ~isUploading
  /\ uploadResult = None

\* C19: the validation timer writes none of error, uploadResult and
\* generate3DResult, so a geometry it rejects shows in threeDError alone;
\* a failed upload or generation does not write threeDError.
C19_ValidationOnlyInViewport ==
  [][/\ lastOp'.name = "timer"
          => UNCHANGED <<error, uploadResult, generate3DResult>>
     /\ (UploadFails1 \/ GenFails1) => UNCHANGED threeDError]_vars

\* the timer rejected the stored geometry: the viewport has the diagnostic
\* and the upload card has no error
C19_Witness ==
  /\ lastOp.name = "timer"
  /\ lastOp.arg = generate3DResult
  /\ threeDError = Some(InvalidGeometryMessage)
  /\ error = None
  /\ ErrorViewShown /\ ~ErrorCardShown

\* C20: a failed generation leaves uploadResult as it was and
\* generate3DResult null and ends with isGenerating3D false, so that with
\* the upload still stored the Start Analysis button is shown and enabled
\* for the same file_id; a click on it clears error in the step that sends
\* the new request.
C20_FailedGenerationRetriable ==
  [][/\ GenFails1
          => /\ UNCHANGED uploadResult
             /\ generate3DResult' = None
             /\ ~isGenerating3D'
             /\ uploadResult' # None => UploadedCardShown'
     /\ (lastOp'.name = "generate" /\ uploadResult # None)
          => /\ error' = None
             /\ \E s \in NewGenReqs1 :
                   Val(genReqs'[s]).file_id = Val(uploadResult).file_id]_vars

\* Start Analysis clicked again after a failure: the error is gone and the
\* new request for the same upload is in flight
C20_Witness ==
  /\ lastOp.name = "generate"
  /\ Val(lastOp.arg).failedBefore
  /\ Val(lastOp.arg).upload = uploadResult
  /\ uploadResult # None
  /\ error = None
  /\ isGenerating3D
  /\ \E s \in GenSlots : genReqs[s] # None

\* C21: a drop or a file selection carrying one or more files puts exactly
\* one upload request in flight, and it is for the first file; one carrying
\* no file puts none in flight and leaves every variable of the component
\* other than isDragging, and every request in flight, as it was.
FileEvent1 == lastOp'.name \in {"drop", "fileSelect"}
EventFiles1 == Val(lastOp'.arg)

C21_FirstFileOnly ==
  [][FileEvent1
      => IF Len(EventFiles1) > 0
           THEN /\ Cardinality(NewUploadReqs1) = 1
                /\ \A s \in NewUploadReqs1 :
                      Val(uploadReqs'[s]).file = EventFiles1[1]
           ELSE /\ NewUploadReqs1 = {}
                /\ UNCHANGED <<isUploading, uploadResult, error,
                                isGenerating3D, generate3DResult, is3DReady,
                                threeDError, uploadReqs, genReqs, timers>>]_vars

\* a drop of two different files: the only request in flight is for the
\* first of them
C21_Witness ==
  /\ lastOp.name = "drop"
  /\ Len(Val(lastOp.arg)) = 2
  /\ Val(lastOp.arg)[1] # Val(lastOp.arg)[2]
  /\ Cardinality(UploadsInFlight) = 1
  /\ \A s \in UploadsInFlight : Val(uploadReqs[s]).file = Val(lastOp.arg)[1]

\* C22: the position buffer of an assembled mesh has 3 x |vertices| values,
\* coordinate k of vertex i (counted from 0) at offset 3i + k as the float32
\* of the coordinate; the index buffer holds the indices of the faces in the
\* order supplied, index k of face f at offset 3f + k; a uv buffer is
\* attached exactly when texture_coords is present and non-empty, and then
\* holds 2 values per entry of texture_coords in order.
C22_FlattenedInOrder ==
  rockMesh # None
    => LET modelData == Val(rockMesh).modelData
           geometry == Val(rockMesh).geometry
           vertices == modelData.vertices.items
           faces == modelData.faces.items
           uvs == modelData.texture_coords.items
       IN /\ geometry.position.itemSize = 3
          /\ Len(geometry.position.array) = 3 * Len(vertices)
          /\ \A i \in 1..Len(vertices), k \in 1..3 :
                geometry.position.array[3 * (i - 1) + k]
                  = ToFloat32(vertices[i][k])
          /\ Len(geometry.index.array) = 3 * Len(faces)
          /\ \A f \in 1..Len(faces), k \in 1..3 :
                geometry.index.array[3 * (f - 1) + k] = ToUint32(faces[f][k])
          /\ (geometry.uv # None)
                <=> (modelData.texture_coords.present /\ Len(uvs) > 0)
          /\ geometry.uv # None
                => /\ Val(geometry.uv).itemSize = 2
                   /\ Len(Val(geometry.uv).array) = 2 * Len(uvs)
                   /\ \A i \in 1..Len(uvs), k \in 1..2 :
                         Val(geometry.uv).array[2 * (i - 1) + k]
                           = ToFloat32(uvs[i][k])

\* a mesh of three vertices and two faces with two texture coordinates
C22_Witness ==
  /\ rockMesh # None
  /\ Len(Val(rockMesh).geometry.position.array) = 9
  /\ Len(Val(rockMesh).geometry.index.array) = 6
  /\ Val(rockMesh).geometry.index.array[4] # Val(rockMesh).geometry.index.array[6]
  /\ Val(rockMesh).geometry.uv # None
  /\ Len(Val(Val(rockMesh).geometry.uv).array) = 4

\* C23: at most one upload request is in flight in every state, and no drop
\* or file selection puts one in flight while another is.
C23_AtMostOneUpload ==
  [][/\ Cardinality({s \in UploadSlots : uploadReqs'[s] # None}) <= 1
     /\ UploadsInFlight # {} => NewUploadReqs1 = {}]_vars

\* C24: at most one generation request is in flight in every state; a
\* request is put in flight only from a state that shows the uploaded card
\* (uploadResult set, generate3DResult null) with isGenerating3D false and no
\* generation in flight; a reset leaves isGenerating3D as it was.
GensInFlight == {s \in GenSlots : genReqs[s] # None}

C24_AtMostOneGeneration ==
  [][/\ Cardinality({s \in GenSlots : genReqs'[s] # None}) <= 1
     /\ NewGenReqs1 # {}
          => /\ uploadResult # None /\ generate3DResult = None
             /\ ~isGenerating3D
             /\ GensInFlight = {}
     /\ lastOp'.name = "reset" => UNCHANGED isGenerating3D]_vars

\* after a reset clicked while generating and a new upload, the button is
\* shown and disabled for as long as the old request is in flight
C24_Witness ==
  /\ mounted
  /\ UploadedCardShown
  /\ isGenerating3D
  /\ Cardinality(GensInFlight) = 1
  /\ \A s \in GensInFlight :
        /\ Val(genReqs[s]).stale
        /\ Val(genReqs[s]).file_id # Val(uploadResult).file_id

\* C25: from an idle state (uploadResult, generate3DResult and error all
\* null) in which every request in flight was started before the last
\* reset, a step that is not a drop or a file selection leads to an idle
\* state.  In an idle state of the mounted component the requests in flight
\* are all stale only when no file was chosen since the component was
\* mounted or last reset.
Idle == uploadResult = None /\ generate3DResult = None /\ error = None
NoRequestSinceReset ==
  /\ \A s \in UploadsInFlight : Val(uploadReqs[s]).stale
  /\ \A s \in GensInFlight : Val(genReqs[s]).stale

C25_IdleAfterReset ==
  [][(mounted /\ Idle /\ NoRequestSinceReset /\ ~FileEvent1) => Idle']_vars

\* C26: while the component is mounted, isUploading is true exactly when an
\* upload request is in flight and isGenerating3D exactly when a generation
\* request is.
C26_BusyFlagsTrackRequests ==
  mounted
    => /\ isUploading <=> UploadsInFlight # {}
       /\ isGenerating3D <=> GensInFlight # {}

\* C27: in every state, the one between the commit that stores a result and
\* its effect included, is3DReady implies that a result is stored, that its
\* model_data has vertices, faces and a non-empty vertices array (what the
\* timer callback checks) and that the timer of that result has fired; so
\* the mesh view is shown only for such a result.
PassedCheck(r) ==
  /\ r.model_data # None
  /\ Val(r.model_data).vertices.present
  /\ Val(r.model_data).faces.present
  /\ Len(Val(r.model_data).vertices.items) > 0

C27_ReadyOnlyForValidated ==
  /\ is3DReady
       => /\ generate3DResult # None
          /\ PassedCheck(Val(generate3DResult))
          /\ Val(generate3DResult) \notin timers
          /\ ~effectPending
  /\ (effectPending /\ generate3DResult # None) => ~MeshViewShown

\* the timer of the stored result has just passed its check
C27_Witness ==
  /\ is3DReady
  /\ lastOp = Op("timer", generate3DResult)
  /\ PassedCheck(Val(generate3DResult))
  /\ timers = {}

\* C28: whenever a generation result is stored in the mounted component,
\* whatever its body, eventually is3DReady is true or threeDError is set,
\* or the result is gone by a reset or the component is unmounted.
C28_LoaderEndsEventually ==
  (mounted /\ generate3DResult # None)
    ~> (is3DReady \/ TruthyStr(threeDError)
          \/ generate3DResult = None \/ ~mounted)

====
